---------------------------- MODULE Spec2Model ----------------------------
(***************************************************************************)
(* Model of sync.py: a one-way synchroniser from a published iCalendar     *)
(* feed to a remote calendar store.                                        *)
(*                                                                         *)
(* Time is counted in whole hours since an arbitrary epoch; a calendar day *)
(* is 24 hours.  A zone is known by its name and has a fixed whole-hour    *)
(* offset from UTC (daylight saving and pytz's LMT offsets are below the   *)
(* resolution of the model).                                               *)
(*                                                                         *)
(* Python values are modelled as follows:                                  *)
(*   datetime.date           [kind |-> "date", wall |-> 24*day, tz |-> ""] *)
(*   datetime.datetime       [kind |-> "datetime", wall |-> h, tz |-> z]   *)
(*                           (tz = "" : naive)                             *)
(*   aware local datetime    [zone |-> z, wall |-> h]                      *)
(*   x.isoformat()           [wall |-> h, off |-> o]  /  [ymd |-> day]     *)
(*   None / "" / [] / {}     the empty sequence << >> (or "" for a TZID)   *)
(*   json.dumps(x)           [json |-> x]         (injective)              *)
(*   md5(x).hexdigest()      [md5 |-> x]          (digest taken injective) *)
(***************************************************************************)
EXTENDS Integers, Sequences, FiniteSets, TLC

(***************************************************************************)
(* Configuration (sync.py, lines 34-44).                                   *)
(***************************************************************************)
TIMEZONE == "Europe/Paris"

PAST_DAYS == 30

WINDOWS_TZMAP ==
    [t \in {"Romance Standard Time", "W. Europe Standard Time",
            "Central European Standard Time", "FLE Standard Time"} |->
        CASE t = "Romance Standard Time" -> "Europe/Paris"
          [] t = "W. Europe Standard Time" -> "Europe/Berlin"
          [] t = "Central European Standard Time" -> "Europe/Warsaw"
          [] t = "FLE Standard Time" -> "Europe/Helsinki"]

NoTz == ""

None == << >>

\* The calendar day an hour count falls on.
DayOf(h) == h \div 24

\* pytz.timezone(name).utcoffset(...): the zone's offset from UTC, in hours.
UTCOffset(zone) ==
    CASE zone = "Europe/Helsinki" -> 2
      [] zone \in {"Europe/Paris", "Europe/Berlin", "Europe/Warsaw"} -> 1
      [] OTHER -> 0

\* map_tzid: an absent TZID is the configured zone, a Windows name is
\* translated, anything else passes through.
map_tzid(src_tzid) ==
    IF src_tzid = NoTz THEN TIMEZONE
    ELSE IF src_tzid \in DOMAIN WINDOWS_TZMAP THEN WINDOWS_TZMAP[src_tzid]
    ELSE src_tzid

\* The absolute instant of an aware datetime, in hours UTC.
Instant(dt) == dt.wall - UTCOffset(dt.zone)

\* datetime.astimezone(zone)
astimezone(dt, zone) == [zone |-> zone, wall |-> Instant(dt) + UTCOffset(zone)]

\* datetime.isoformat() of an aware datetime: wall clock text plus the
\* numeric offset; the zone's name is not part of it.
isoformat(dt) == [wall |-> dt.wall, off |-> UTCOffset(dt.zone)]

\* datetime.date() followed by date.isoformat()
date_isoformat(dt) == [ymd |-> DayOf(dt.wall)]

\* normalize_dt(value, src_tzid, target_tz) -> <<is_all_day, aware datetime>>.
\* target_tz = NoTz stands for the default argument (the global TZ).
normalize_dt(value, src_tzid, target_tz) ==
    LET target == IF target_tz = NoTz THEN TIMEZONE ELSE map_tzid(target_tz)
    IN  IF value.kind = "date"
        THEN <<TRUE, [zone |-> target, wall |-> value.wall]>>
        ELSE LET src == IF value.tz # NoTz THEN value.tz
                        ELSE IF src_tzid # NoTz THEN map_tzid(src_tzid)
                        ELSE target
             IN  <<FALSE, astimezone([zone |-> src, wall |-> value.wall], target)>>

\* _fmt_until_value: a datetime goes to UTC, a date is midnight UTC; both
\* are rendered as a compact UTC timestamp.
_fmt_until_value(val) ==
    IF val.kind = "datetime"
    THEN [utc |-> Instant([zone |-> IF val.tz = NoTz THEN TIMEZONE ELSE val.tz,
                           wall |-> val.wall])]
    ELSE [utc |-> val.wall]

\* str.upper() on the recurrence keys and values the model draws.
Upper(s) ==
    CASE s = "freq" -> "FREQ"
      [] s = "until" -> "UNTIL"
      [] s = "count" -> "COUNT"
      [] s = "weekly" -> "WEEKLY"
      [] s = "daily" -> "DAILY"
      [] OTHER -> s

\* sorted(rrule_dict.keys(), key=str.upper) over the keys the model draws.
RRuleKeyOrder == <<"COUNT", "FREQ", "UNTIL">>

\* build_rrule_string: rrule_dict is a function from keys to sequences of
\* values; the result is the sequence of KEY=values parts in sorted order.
build_rrule_string(rrule_dict) ==
    LET fmt(key, v) == IF key = "UNTIL" THEN _fmt_until_value(v)
                       ELSE IF key = "COUNT" THEN [int |-> v]
                       ELSE [str |-> Upper(v)]
        part(k) == [key |-> Upper(k),
                    vals |-> [i \in 1..Len(rrule_dict[k]) |->
                                 fmt(Upper(k), rrule_dict[k][i])]]
        keyAt(K) == CHOOSE k \in DOMAIN rrule_dict : Upper(k) = K
        present == SelectSeq(RRuleKeyOrder,
                             LAMBDA K : \E k \in DOMAIN rrule_dict : Upper(k) = K)
    IN  [i \in 1..Len(present) |-> part(keyAt(present[i]))]

\* _format_recur_line(kind, is_all_day, dt_list_dt, tzid): dt_list_dt holds
\* dates [ymd] or aware datetimes [zone, wall].
_format_recur_line(kind, is_all_day, dt_list_dt, tzid) ==
    IF is_all_day
    THEN [kind |-> kind, param |-> "VALUE=DATE", tzid |-> NoTz,
          vals |-> [i \in 1..Len(dt_list_dt) |->
                      IF "ymd" \in DOMAIN dt_list_dt[i]
                      THEN dt_list_dt[i].ymd
                      ELSE DayOf(dt_list_dt[i].wall)]]
    ELSE [kind |-> kind, param |-> "TZID", tzid |-> tzid,
          vals |-> [i \in 1..Len(dt_list_dt) |-> dt_list_dt[i].wall]]

json_dumps(x) == [json |-> x]

md5_hexdigest(x) == [md5 |-> x]

\* event_fingerprint: the digest of the canonical JSON payload.
event_fingerprint(summary, description, loc, start_str, end_str, rrule, exdates, rdates) ==
    md5_hexdigest(json_dumps(
        [s |-> summary, d |-> description, l |-> loc, st |-> start_str,
         et |-> end_str, rr |-> rrule, ex |-> exdates, rd |-> rdates]))

(***************************************************************************)
(* A raw feed event (icalendar.Event) is a record                          *)
(*   [UID, RECURRENCE_ID, SUMMARY, DESCRIPTION, LOCATION, DTSTART, DTEND,  *)
(*    DURATION, RRULE, EXDATE, RDATE]                                      *)
(* where a date property is [dt |-> value, tzid |-> TZID parameter],       *)
(* DURATION is [hours |-> n], RRULE is a function from keys to value       *)
(* sequences, EXDATE / RDATE are sequences of [tzid, dts] blocks, and an   *)
(* absent property is None.                                                *)
(***************************************************************************)

\* The flat list of normalized dates of an EXDATE / RDATE property
\* (lines 246-266): every component of every block, in order.
RECURSIVE recur_dates(_, _, _)
recur_dates(prop, allday_start, event_tz) ==
    IF prop = None THEN << >>
    ELSE LET blk == Head(prop)
             one(comp) ==
                 LET n == normalize_dt(comp, blk.tzid, event_tz)
                 IN  IF allday_start THEN [ymd |-> DayOf(n[2].wall)] ELSE n[2]
         IN  [i \in 1..Len(blk.dts) |-> one(blk.dts[i])]
             \o recur_dates(Tail(prop), allday_start, event_tz)

\* isoformat() of an element of exdates_dt / rdates_dt (lines 298-299).
iso_of(d) == IF "ymd" \in DOMAIN d THEN d ELSE isoformat(d)

\* to_gcal_resource(vevent) -> <<uid, resource>>.
to_gcal_resource(vevent) ==
    LET recur_id_prop == vevent.RECURRENCE_ID
        uid == IF recur_id_prop # None
               THEN <<vevent.UID,
                      isoformat(normalize_dt(recur_id_prop.dt,
                                             recur_id_prop.tzid, NoTz)[2])>>
               ELSE <<vevent.UID>>
        dtstart_prop == vevent.DTSTART
        dtstart_tzid_raw == dtstart_prop.tzid
        event_tzid == map_tzid(dtstart_tzid_raw)
        ns == normalize_dt(dtstart_prop.dt, dtstart_tzid_raw, event_tzid)
        allday_start == ns[1]
        start_dt_local == ns[2]
        dtend_prop == vevent.DTEND
        ne == IF dtend_prop # None
              THEN normalize_dt(dtend_prop.dt, dtend_prop.tzid, event_tzid)
              ELSE IF vevent.DURATION # None
              THEN <<allday_start,
                     [zone |-> event_tzid,
                      wall |-> start_dt_local.wall + vevent.DURATION.hours]>>
              ELSE <<allday_start,
                     [zone |-> event_tzid,
                      wall |-> start_dt_local.wall
                               + (IF allday_start THEN 24 ELSE 1)]>>
        allday_end == ne[1]
        end_dt_local == ne[2]
        start == IF allday_start
                 THEN [date |-> date_isoformat(start_dt_local)]
                 ELSE [dateTime |-> isoformat(start_dt_local),
                       timeZone |-> event_tzid]
        end == IF allday_end
               THEN [date |-> date_isoformat(end_dt_local)]
               ELSE [dateTime |-> isoformat(end_dt_local),
                     timeZone |-> event_tzid]
        g_rrule == IF vevent.RRULE # None
                   THEN build_rrule_string(vevent.RRULE) ELSE None
        exdates_dt == recur_dates(vevent.EXDATE, allday_start, event_tzid)
        rdates_dt == recur_dates(vevent.RDATE, allday_start, event_tzid)
        recurrence_lines ==
            IF recur_id_prop # None THEN << >>
            ELSE (IF g_rrule # None
                  THEN <<[kind |-> "RRULE", rule |-> g_rrule]>> ELSE << >>)
                 \o (IF exdates_dt # << >>
                     THEN <<_format_recur_line("EXDATE", "date" \in DOMAIN start,
                                               exdates_dt, event_tzid)>>
                     ELSE << >>)
                 \o (IF rdates_dt # << >>
                     THEN <<_format_recur_line("RDATE", "date" \in DOMAIN start,
                                               rdates_dt, event_tzid)>>
                     ELSE << >>)
        fp == event_fingerprint(
                  vevent.SUMMARY, vevent.DESCRIPTION, vevent.LOCATION,
                  json_dumps(start), json_dumps(end), g_rrule,
                  [i \in 1..Len(exdates_dt) |-> iso_of(exdates_dt[i])],
                  [i \in 1..Len(rdates_dt) |-> iso_of(rdates_dt[i])])
        private == [src |-> "outlook_ics", outlook_uid |-> uid, fp |-> fp]
        base == [summary |-> vevent.SUMMARY,
                 description |-> vevent.DESCRIPTION,
                 location |-> vevent.LOCATION,
                 start |-> start, end |-> end, private |-> private]
        resource == IF recurrence_lines # << >>
                    THEN [k \in DOMAIN base \cup {"recurrence"} |->
                             IF k = "recurrence" THEN recurrence_lines
                             ELSE base[k]]
                    ELSE base
    IN  <<uid, resource>>

(***************************************************************************)
(* Bounds of the model.                                                    *)
(***************************************************************************)
\* How many times the clock advances (by TickHours each time).
MaxTicks == 2

\* How many times the publisher edits the feed document.
MaxFeedChanges == 1

\* The largest event id the store hands out.
MaxIds == 6

\* The clock at the first run: day 100, 00:00 UTC.
Now0 == 100 * 24

\* Time that passes between two scheduled runs when the clock advances.
TickHours == 20 * 24

(***************************************************************************)
(* The feed documents the publisher can serve.                             *)
(***************************************************************************)
Date(d) == [kind |-> "date", wall |-> 24 * d, tz |-> NoTz]

DateTime(d, h, z) == [kind |-> "datetime", wall |-> 24 * d + h, tz |-> z]

Prop(v, z) == [dt |-> v, tzid |-> z]

BaseUIDs == {"a", "b"}

Weekly == [FREQ |-> <<"WEEKLY">>]

\* A timed event without DTEND, DURATION or recurrence.
Plain(u, s, d) ==
    [UID |-> u, RECURRENCE_ID |-> None, SUMMARY |-> s, DESCRIPTION |-> "",
     LOCATION |-> "", DTSTART |-> Prop(DateTime(d, 9, NoTz), NoTz),
     DTEND |-> None, DURATION |-> None, RRULE |-> None, EXDATE |-> None,
     RDATE |-> None]

\* The variants of the event with base identifier u: upcoming (two
\* summaries), long past, a recurring master that started long ago, an
\* override of a long past occurrence that still carries an RRULE, and a
\* record without DTSTART.
Variants(u) ==
    { Plain(u, "s0", 110), Plain(u, "s1", 110), Plain(u, "s0", 60),
      [Plain(u, "s0", 60) EXCEPT !.RRULE = Weekly],
      [Plain(u, "s0", 60) EXCEPT !.RRULE = Weekly,
           !.RECURRENCE_ID = Prop(DateTime(60, 9, NoTz), NoTz)],
      [Plain(u, "s0", 110) EXCEPT !.DTSTART = None] }

Feed0 == {Plain("a", "s0", 110), [Plain("b", "s0", 60) EXCEPT !.RRULE = Weekly]}

(***************************************************************************)
(* State.                                                                  *)
(***************************************************************************)
VARIABLES
    feed,         \* the document the publisher currently serves
    feedChanges,  \* how many times it was edited
    now,          \* the clock, in hours
    state_file,   \* the persisted sync state (STATE_FILE); None: no file
    store,        \* the target calendar: a set of event records
    nextId,       \* the id the store gives to the next inserted event
    pc,           \* "idle" (no process), or the position of main()
    state,        \* main: state = _load_state()
    status,       \* main: r.status_code (0 before the fetch)
    content,      \* main: r.content, the document this run was served (on a
                  \* 304, which has no body: the document the server holds)
    src,          \* main: the kept snapshot, uid -> resource
    existing,     \* main: the store listing, uid -> store event
    todo,         \* main: the uids the upsert loop has still to visit
    dels,         \* main: the uids the delete loop has still to visit
    calls,        \* the _save_state and store calls this run has issued
    outcome,      \* how the run ended
    store0,       \* the store as it was when this run started
    prev,         \* the previous run: [content, outcome]
    vevents,      \* raw events handed to to_gcal_resource on their own
    resources     \* what to_gcal_resource returned for them

vars == <<feed, feedChanges, now, state_file, store, nextId, pc, state, status,
          content, src, existing, todo, dels, calls, outcome, store0, prev,
          vevents, resources>>

canon == <<vevents, resources>>

persistent == <<state_file, store, nextId>>

locals == <<state, status, content, src, existing, todo, dels, calls, outcome,
           store0>>

env == <<feed, feedChanges, now>>

EmptyDict == [u \in {} |-> None]

(***************************************************************************)
(* The target store (Google Calendar, seen through the four calls main     *)
(* makes).  A store event is the resource it was written with plus "id".   *)
(***************************************************************************)
\* A resource as the store keeps it after events().insert.
Inserted(body, id) ==
    [k \in DOMAIN body \cup {"id"} |-> IF k = "id" THEN id ELSE body[k]]

\* events().patch: the fields of the body replace the event's, the fields
\* the body does not name stay.
Patched(ev, body) ==
    [k \in DOMAIN ev \cup DOMAIN body |->
        IF k \in DOMAIN body THEN body[k] ELSE ev[k]]

\* The private extended properties of a store event (None when it has none).
private_of(ev) == ev.private

has_uid(ev) == "outlook_uid" \in DOMAIN private_of(ev)

\* Whether the event recurs without an end (an RRULE line with no UNTIL).
Unbounded(ev) ==
    /\ "recurrence" \in DOMAIN ev
    /\ \E i \in 1..Len(ev.recurrence) :
         /\ ev.recurrence[i].kind = "RRULE"
         /\ \A j \in 1..Len(ev.recurrence[i].rule) :
              ev.recurrence[i].rule[j].key \notin {"UNTIL", "COUNT"}

\* The instant the event's (last) occurrence ends.
LastEnd(ev) ==
    IF "date" \in DOMAIN ev.end
    THEN 24 * ev.end.date.ymd - UTCOffset(TIMEZONE)
    ELSE ev.end.dateTime.wall - ev.end.dateTime.off

\* events().list(timeMin=t, privateExtendedProperty="src=outlook_ics"):
\* the tagged events that have not ended by t.
Listed(ev, t) ==
    /\ "src" \in DOMAIN private_of(ev)
    /\ private_of(ev).src = "outlook_ics"
    /\ (Unbounded(ev) \/ LastEnd(ev) > t)

\* gcal_list_existing: the dicts uid -> event the loop of lines 155-159 can
\* build; of two listed events with one uid the one listed last stays, and
\* the order of the listing is the store's.
gcal_list_existing(st, t) ==
    LET items == {ev \in st : Listed(ev, t) /\ has_uid(ev)}
        uids == {private_of(ev).outlook_uid : ev \in items}
    IN  {f \in [uids -> items] : \A u \in uids : private_of(f[u]).outlook_uid = u}

\* Events the calendar holds when the model starts: one made by hand, one
\* that carries the source tag but no outlook_uid, one written for "b"
\* before fingerprints were stored, and one written for an event "c" that
\* has since left the feed.
ForeignEvent(id, priv) ==
    [id |-> id, summary |-> "x", description |-> "", location |-> "",
     start |-> [dateTime |-> [wall |-> 24 * 300, off |-> 1],
                timeZone |-> TIMEZONE],
     end |-> [dateTime |-> [wall |-> 24 * 300 + 1, off |-> 1],
              timeZone |-> TIMEZONE],
     private |-> priv]

Store0 ==
    { ForeignEvent(1, None),
      ForeignEvent(2, [src |-> "outlook_ics"]),
      ForeignEvent(3, [src |-> "outlook_ics", outlook_uid |-> <<"b">>]),
      ForeignEvent(4, [src |-> "outlook_ics", outlook_uid |-> <<"c">>,
                       fp |-> md5_hexdigest(json_dumps("c"))]) }

(***************************************************************************)
(* main(), lines 306-399.                                                  *)
(***************************************************************************)
\* dict.get on the loaded state ({} when the file is missing or corrupt).
state_get(st, k) == IF st = None THEN None ELSE st[k]

\* The validators the publisher's server sends with a document.
ETag(doc) == [etag |-> doc]

LastModified(doc) == [last_modified |-> doc]

\* A variant of new_state that leaves the content hash out of the saved state.
new_state_without_hash(doc) ==
    [etag |-> ETag(doc), last_modified |-> LastModified(doc), hash |-> None]

\* Lines 332-336.
new_state(doc) ==
    [etag |-> ETag(doc), last_modified |-> LastModified(doc),
     hash |-> md5_hexdigest(doc)]

\* A variant of hash_unchanged that looks the saved hash up under a key the
\* state never has.
hash_unchanged_wrong_key(curr_hash, st) == curr_hash = None

\* Line 327.
hash_unchanged(curr_hash, st) == curr_hash = state_get(st, "hash")

\* A variant of keep that takes every record with an RRULE for a master.
keep_any_rrule(comp, t) ==
    /\ comp.DTSTART # None
    /\ LET start_dt == normalize_dt(comp.DTSTART.dt, comp.DTSTART.tzid, NoTz)[2]
           cutoff == t - PAST_DAYS * 24
       IN  IF comp.RRULE # None THEN TRUE
           ELSE Instant(start_dt) >= cutoff

\* Lines 346-361: whether the filter keeps a VEVENT at clock t.
keep(comp, t) ==
    /\ comp.DTSTART # None
    /\ LET start_dt == normalize_dt(comp.DTSTART.dt, comp.DTSTART.tzid, NoTz)[2]
           cutoff == t - PAST_DAYS * 24
           has_rrule == comp.RRULE # None
           has_recur_id == comp.RECURRENCE_ID # None
       IN  IF has_rrule /\ ~has_recur_id THEN TRUE
           ELSE Instant(start_dt) >= cutoff

\* Lines 344-367: the kept snapshot src, uid -> resource.
kept_snapshot(doc, t) ==
    LET kept == {comp \in doc : keep(comp, t)}
        uids == {to_gcal_resource(comp)[1] : comp \in kept}
    IN  [u \in uids |->
            to_gcal_resource(
                CHOOSE comp \in kept : to_gcal_resource(comp)[1] = u)[2]]

\* A variant of needs_patch that leaves an event without a stored
\* fingerprint alone.
needs_patch_if_fingerprinted(ex, res) ==
    /\ "fp" \in DOMAIN private_of(ex)
    /\ private_of(ex).fp # res.private.fp

\* Lines 377-378: whether the listed event ex is patched with res.
needs_patch(ex, res) ==
    LET old_fp == IF "fp" \in DOMAIN private_of(ex) THEN private_of(ex).fp
                  ELSE None
    IN  old_fp # res.private.fp

\* A variant of to_delete that deletes every listed event.
to_delete_all(ex, kept) == DOMAIN ex

\* Lines 395-396: the listed uids the delete loop deletes.
to_delete(ex, kept) == {u \in DOMAIN ex : u \notin DOMAIN kept}

\* A variant of after_raise that swallows the exception and goes on.
after_raise_continue(p) == p

\* Lines 388-392: where main goes when a store call raises.
after_raise(p) == "done"

Call(op, uid, id, body, ok) ==
    [op |-> op, uid |-> uid, id |-> id, body |-> body, ok |-> ok]

\* A fresh process: main's locals before line 310.
FreshLocals ==
    /\ status' = 0
    /\ content' = {}
    /\ src' = EmptyDict
    /\ existing' = EmptyDict
    /\ todo' = {}
    /\ dels' = {}
    /\ calls' = << >>
    /\ outcome' = ""

\* Lines 310-322: the state is loaded, the conditional GET is answered 304.
\* The server answers 304 only to a validator of the document it serves.
NotModified ==
    /\ pc = "idle"
    /\ state_get(state_file, "etag") = ETag(feed)
    /\ state' = state_file
    /\ status' = 304
    /\ content' = feed
    /\ outcome' = "not_modified"
    /\ pc' = "done"
    /\ store0' = store
    /\ UNCHANGED <<src, existing, todo, dels, calls, prev>>
    /\ UNCHANGED <<persistent, env, canon>>

\* Lines 310-323: the GET fails; raise_for_status ends the run.
FetchError ==
    /\ pc = "idle"
    /\ state' = state_file
    /\ status' = 500
    /\ outcome' = "fetch_error"
    /\ pc' = "done"
    /\ store0' = store
    /\ UNCHANGED <<content, src, existing, todo, dels, calls, prev>>
    /\ UNCHANGED <<persistent, env, canon>>

\* Lines 310-329: the document is served and its hash is the saved one.
HashUnchanged ==
    /\ pc = "idle"
    /\ hash_unchanged(md5_hexdigest(feed), state_file)
    /\ state' = state_file
    /\ status' = 200
    /\ content' = feed
    /\ outcome' = "hash_unchanged"
    /\ pc' = "done"
    /\ store0' = store
    /\ UNCHANGED <<src, existing, todo, dels, calls, prev>>
    /\ UNCHANGED <<persistent, env, canon>>

\* Lines 310-337: the document is served, its hash differs, and the new
\* sync state is written before anything else is done.
ChangeDetected ==
    /\ pc = "idle"
    /\ ~hash_unchanged(md5_hexdigest(feed), state_file)
    /\ state' = state_file
    /\ status' = 200
    /\ content' = feed
    /\ state_file' = new_state(feed)
    /\ calls' = <<Call("save_state", None, 0, new_state(feed), TRUE)>>
    /\ pc' = "parse"
    /\ store0' = store
    /\ UNCHANGED <<src, existing, todo, dels, outcome, prev>>
    /\ UNCHANGED <<store, nextId, env, canon>>

\* Lines 339-367: parse and filter.
Filter ==
    /\ pc = "parse"
    /\ src' = kept_snapshot(content, now)
    /\ pc' = "list"
    /\ UNCHANGED <<state, status, content, existing, todo, dels, calls, outcome,
                   store0, prev>>
    /\ UNCHANGED <<persistent, env, canon>>

\* Line 370: the listing; the upsert loop starts over src.
ListExisting ==
    /\ pc = "list"
    /\ \E items \in gcal_list_existing(store, now) : existing' = items
    /\ calls' = Append(calls, Call("list", None, 0, None, TRUE))
    /\ todo' = DOMAIN src
    /\ pc' = "upsert"
    /\ UNCHANGED <<state, status, content, src, dels, outcome, store0, prev>>
    /\ UNCHANGED <<persistent, env, canon>>

\* Lines 373-378: a kept event whose listed counterpart has its fingerprint.
UpsertNoop ==
    /\ pc = "upsert"
    /\ \E u \in todo :
         /\ u \in DOMAIN existing
         /\ ~needs_patch(existing[u], src[u])
         /\ todo' = todo \ {u}
    /\ UNCHANGED <<pc, state, status, content, src, existing, dels, calls, outcome,
                   store0, prev>>
    /\ UNCHANGED <<persistent, env, canon>>

\* Lines 376-383: the patch succeeds.
UpsertPatch ==
    /\ pc = "upsert"
    /\ \E u \in todo :
         /\ u \in DOMAIN existing
         /\ needs_patch(existing[u], src[u])
         /\ store' = {IF ev.id = existing[u].id THEN Patched(ev, src[u]) ELSE ev
                        : ev \in store}
         /\ calls' = Append(calls, Call("patch", u, existing[u].id, src[u], TRUE))
         /\ todo' = todo \ {u}
    /\ UNCHANGED <<pc, state, status, content, src, existing, dels, outcome, store0,
                   prev>>
    /\ UNCHANGED <<state_file, nextId, env, canon>>

\* Lines 384-387: the insert succeeds.
UpsertInsert ==
    /\ pc = "upsert"
    /\ nextId <= MaxIds
    /\ \E u \in todo :
         /\ u \notin DOMAIN existing
         /\ store' = store \cup {Inserted(src[u], nextId)}
         /\ calls' = Append(calls, Call("insert", u, nextId, src[u], TRUE))
         /\ todo' = todo \ {u}
    /\ nextId' = nextId + 1
    /\ UNCHANGED <<pc, state, status, content, src, existing, dels, outcome, store0,
                   prev>>
    /\ UNCHANGED <<state_file, env, canon>>

\* Lines 374-392: the patch or the insert raises; the handler prints and
\* re-raises.
UpsertRaise ==
    /\ pc = "upsert"
    /\ \E u \in todo :
         /\ calls' = Append(calls,
                IF u \in DOMAIN existing
                THEN Call("patch", u, existing[u].id, src[u], FALSE)
                ELSE Call("insert", u, 0, src[u], FALSE))
         /\ u \in DOMAIN existing => needs_patch(existing[u], src[u])
         /\ todo' = todo \ {u}
    /\ pc' = after_raise(pc)
    /\ outcome' = IF pc' = "done" THEN "failed" ELSE outcome
    /\ UNCHANGED <<state, status, content, src, existing, dels, store0, prev>>
    /\ UNCHANGED <<persistent, env, canon>>

\* The upsert loop ends; the delete loop starts over existing.
UpsertDone ==
    /\ pc = "upsert"
    /\ todo = {}
    /\ dels' = to_delete(existing, src)
    /\ pc' = "delete"
    /\ UNCHANGED <<state, status, content, src, existing, todo, calls, outcome,
                   store0, prev>>
    /\ UNCHANGED <<persistent, env, canon>>

\* Lines 395-399: one listed event whose uid is not in src is deleted.
Delete ==
    /\ pc = "delete"
    /\ \E u \in dels :
         /\ store' = {ev \in store : ev.id # existing[u].id}
         /\ calls' = Append(calls, Call("delete", u, existing[u].id, None, TRUE))
         /\ dels' = dels \ {u}
    /\ UNCHANGED <<pc, state, status, content, src, existing, todo, outcome,
                   store0, prev>>
    /\ UNCHANGED <<state_file, nextId, env, canon>>

\* Lines 397-399: the delete raises; nothing catches it.
DeleteRaise ==
    /\ pc = "delete"
    /\ \E u \in dels :
         /\ calls' = Append(calls, Call("delete", u, existing[u].id, None, FALSE))
         /\ dels' = dels \ {u}
    /\ pc' = "done"
    /\ outcome' = "failed"
    /\ UNCHANGED <<state, status, content, src, existing, todo, store0, prev>>
    /\ UNCHANGED <<persistent, env, canon>>

\* Line 399: the delete loop ends and main returns.
Finish ==
    /\ pc = "delete"
    /\ dels = {}
    /\ pc' = "done"
    /\ outcome' = "completed"
    /\ UNCHANGED <<state, status, content, src, existing, todo, dels, calls,
                   store0, prev>>
    /\ UNCHANGED <<persistent, env, canon>>

\* The process is killed after the new state was saved.  (Killed earlier it
\* has changed nothing.)
Kill ==
    /\ pc \in {"parse", "list", "upsert", "delete"}
    /\ pc' = "done"
    /\ outcome' = "killed"
    /\ UNCHANGED <<state, status, content, src, existing, todo, dels, calls, store0,
                   prev>>
    /\ UNCHANGED <<persistent, env, canon>>

\* The process is gone; only the state file and the store remain.
Exit ==
    /\ pc = "done"
    /\ pc' = "idle"
    /\ prev' = IF outcome = "fetch_error" THEN prev
               ELSE [content |-> content, outcome |-> outcome]
    /\ state' = None
    /\ store0' = {}
    /\ FreshLocals
    /\ UNCHANGED <<persistent, env, canon>>

\* Between runs the publisher edits one event of the feed: adds it, removes
\* it or replaces it by another variant.
FeedChange ==
    /\ pc = "idle"
    /\ feedChanges < MaxFeedChanges
    /\ \E u \in BaseUIDs :
         \E new \in SUBSET Variants(u) :
            /\ Cardinality(new) <= 1
            /\ feed' = {e \in feed : e.UID # u} \cup new
            /\ feed' # feed
    /\ feedChanges' = feedChanges + 1
    /\ UNCHANGED <<now, pc, prev>>
    /\ UNCHANGED <<persistent, locals, canon>>

\* Between runs time passes.
Tick ==
    /\ pc = "idle"
    /\ now < Now0 + MaxTicks * TickHours
    /\ now' = now + TickHours
    /\ UNCHANGED <<feed, feedChanges, pc, prev>>
    /\ UNCHANGED <<persistent, locals, canon>>

\* Before the first run: the publisher serves Feed0, no state file exists,
\* the calendar holds Store0 and no process runs.
MainInit ==
    /\ feed = Feed0
    /\ feedChanges = 0
    /\ now = Now0
    /\ state_file = None
    /\ store = Store0
    /\ nextId = 5
    /\ pc = "idle"
    /\ state = None
    /\ status = 0
    /\ content = {}
    /\ src = EmptyDict
    /\ existing = EmptyDict
    /\ todo = {}
    /\ dels = {}
    /\ calls = << >>
    /\ outcome = ""
    /\ store0 = {}
    /\ prev = [content |-> {}, outcome |-> ""]

Init ==
    /\ MainInit
    /\ vevents = << >>
    /\ resources = << >>

Next ==
    \/ NotModified
    \/ FetchError
    \/ HashUnchanged
    \/ ChangeDetected
    \/ Filter
    \/ ListExisting
    \/ UpsertNoop
    \/ UpsertPatch
    \/ UpsertInsert
    \/ UpsertRaise
    \/ UpsertDone
    \/ Delete
    \/ DeleteRaise
    \/ Finish
    \/ Kill
    \/ Exit
    \/ FeedChange
    \/ Tick

Spec == Init /\ [][Next]_vars

(***************************************************************************)
(* to_gcal_resource on its own: two raw events are drawn and canonicalized. *)
(***************************************************************************)
Daily == [freq |-> <<"daily">>, UNTIL |-> <<Date(40)>>]

RawEvents ==
    { [UID |-> "a", RECURRENCE_ID |-> rid, SUMMARY |-> s, DESCRIPTION |-> "",
       LOCATION |-> "", DTSTART |-> st, DTEND |-> en, DURATION |-> du,
       RRULE |-> rr, EXDATE |-> ex, RDATE |-> None] :
        rid \in {None, Prop(DateTime(10, 9, NoTz), "FLE Standard Time")},
        s \in {"s0", "s1"},
        st \in {Prop(Date(10), NoTz),
                Prop(DateTime(10, 9, NoTz), "Romance Standard Time")},
        en \in {None, Prop(Date(11), NoTz),
                Prop(DateTime(10, 11, "UTC"), NoTz)},
        du \in {None, [hours |-> 2]},
        rr \in {None, Daily},
        ex \in {None, <<[tzid |-> NoTz, dts |-> <<Date(12), DateTime(13, 9, NoTz)>>]>>} }

CanonInit ==
    /\ MainInit
    /\ vevents \in RawEvents \X RawEvents
    /\ resources = << >>

Canonicalize ==
    /\ resources = << >>
    /\ resources' = <<to_gcal_resource(vevents[1])[2],
                      to_gcal_resource(vevents[2])[2]>>
    /\ UNCHANGED <<persistent, env, locals, pc, prev, vevents>>

CanonNext == Canonicalize

SpecCanon == CanonInit /\ [][CanonNext]_vars

(***************************************************************************)
(* Vocabulary of the properties.                                           *)
(***************************************************************************)
MutationOps == {"insert", "patch", "delete"}

\* The positions in this run's call log that satisfy P.
CallsWhere(P(_)) == {i \in 1..Len(calls) : P(calls[i])}

\* The run has been served a document (or told it is unchanged).
Served == status \in {200, 304}

\* The sync-managed events of a store and those a listing at t returns.
Managed(st) == {ev \in st : has_uid(ev)}

ListedManaged(st, t) == {ev \in Managed(st) : Listed(ev, t)}

uid_of(ev) == private_of(ev).outlook_uid

\* The identity of a raw event, from its UID and RECURRENCE-ID alone.
Identity(e) ==
    IF e.RECURRENCE_ID = None THEN <<e.UID>>
    ELSE <<e.UID, isoformat(normalize_dt(e.RECURRENCE_ID.dt,
                                         e.RECURRENCE_ID.tzid, NoTz)[2])>>

\* The retention rule as the specification words it.
IsMaster(e) == e.RRULE # None /\ e.RECURRENCE_ID = None

RetentionRule(e, t) ==
    /\ e.DTSTART # None
    /\ \/ IsMaster(e)
       \/ Instant(normalize_dt(e.DTSTART.dt, e.DTSTART.tzid, NoTz)[2])
             >= t - PAST_DAYS * 24

\* The events of a document the retention rule keeps.
KeptEvents(doc, t) == {e \in doc : RetentionRule(e, t)}

\* Every kept event has a managed store event with its identity and its
\* fingerprint.
NothingMissing(st, doc, t) ==
    \A e \in KeptEvents(doc, t) :
       \E ev \in Managed(st) :
          /\ uid_of(ev) = Identity(e)
          /\ "fp" \in DOMAIN private_of(ev)
          /\ private_of(ev).fp = to_gcal_resource(e)[2].private.fp

\* The store is fully synced with the document.
FullySynced(st, doc, t) ==
    /\ NothingMissing(st, doc, t)
    /\ \A ev \in Managed(st) :
          \E e \in KeptEvents(doc, t) : Identity(e) = uid_of(ev)

\* The store mutations of a call log, applied in order.
RECURSIVE Applied(_, _)
Applied(st, log) ==
    IF log = << >> THEN st
    ELSE LET c == Head(log)
             st1 == IF ~c.ok THEN st
                    ELSE IF c.op = "insert" THEN st \cup {Inserted(c.body, c.id)}
                    ELSE IF c.op = "patch"
                    THEN {IF ev.id = c.id THEN Patched(ev, c.body) ELSE ev
                            : ev \in st}
                    ELSE IF c.op = "delete" THEN {ev \in st : ev.id # c.id}
                    ELSE st
         IN  Applied(st1, Tail(log))

(***************************************************************************)
(* C1.  Idempotent sync: a run against the document the previous run was   *)
(* served, starting from a store that is fully synced with it, issues no   *)
(* insert, no patch and no delete.                                         *)
(***************************************************************************)
C1_IdempotentSync ==
    ( /\ pc # "idle"
      /\ Served
      /\ prev.outcome # ""
      /\ content = prev.content
      /\ FullySynced(store0, content, now) )
    => CallsWhere(LAMBDA c : c.op \in MutationOps) = {}

C1_Witness ==
    /\ pc = "done"
    /\ outcome = "hash_unchanged"
    /\ prev.outcome = "completed"
    /\ content = prev.content
    /\ FullySynced(store0, content, now)
    /\ KeptEvents(content, now) # {}
    /\ \E ev \in Managed(store0) : ~Listed(ev, now)

(***************************************************************************)
(* C2.  No duplication: the store never holds two sync-managed events with *)
(* the same identity.                                                      *)
(***************************************************************************)
C2_NoDuplicates ==
    \A ev1, ev2 \in Managed(store) :
       uid_of(ev1) = uid_of(ev2) => ev1.id = ev2.id

(***************************************************************************)
(* C3.  Self-healing: when the previous run was terminated after it had    *)
(* detected a change, a run against the same document that runs to its end *)
(* leaves no kept event without an up-to-date managed store event.         *)
(***************************************************************************)
C3_SelfHealing ==
    ( /\ pc = "done"
      /\ Served
      /\ outcome \in {"completed", "not_modified", "hash_unchanged"}
      /\ prev.outcome \in {"killed", "failed"}
      /\ content = prev.content )
    => NothingMissing(store, content, now)

(***************************************************************************)
(* C4.  Unchanged-check early exit: a run that is answered 304, or is      *)
(* served a document whose MD5 is the hash of the loaded sync state, ends  *)
(* without any store call and without writing the sync state.              *)
(***************************************************************************)
C4_UnchangedExit ==
    ( /\ pc # "idle"
      /\ \/ status = 304
         \/ status = 200 /\ md5_hexdigest(content) = state_get(state, "hash") )
    => /\ pc = "done"
       /\ calls = << >>
       /\ state_file = state
       /\ store = store0

C4_Witness ==
    /\ pc = "done"
    /\ status = 304
    /\ calls = << >>
    /\ ~NothingMissing(store, content, now)

(***************************************************************************)
(* C5.  All-day consistency: the start and the end of every resource       *)
(* to_gcal_resource returns use the same encoding, both {date} or both     *)
(* {dateTime, timeZone}.                                                   *)
(***************************************************************************)
C5_AllDayConsistency ==
    \A i \in 1..Len(resources) :
       ("date" \in DOMAIN resources[i].start)
          <=> ("date" \in DOMAIN resources[i].end)

(***************************************************************************)
(* C6.  Delete step: in a run that completes, every listed managed event   *)
(* whose identity is not in the kept snapshot gets exactly one delete; a   *)
(* listed event whose identity is kept, and an event without outlook_uid,  *)
(* gets none.                                                              *)
(***************************************************************************)
DeletesOf(id) == CallsWhere(LAMBDA c : c.op = "delete" /\ c.id = id)

C6_DeleteStep ==
    (pc = "done" /\ outcome = "completed")
    => \A ev \in store0 :
          IF ev \in ListedManaged(store0, now)
                /\ \A e \in KeptEvents(content, now) : Identity(e) # uid_of(ev)
          THEN Cardinality(DeletesOf(ev.id)) = 1
          ELSE (ev \in ListedManaged(store0, now) \/ ~has_uid(ev))
                  => DeletesOf(ev.id) = {}

C6_Witness ==
    /\ pc = "done"
    /\ outcome = "completed"
    /\ \E ev \in ListedManaged(store0, now) : DeletesOf(ev.id) # {}
    /\ \E ev \in ListedManaged(store0, now) : DeletesOf(ev.id) = {}
    /\ \E ev \in store0 : ~has_uid(ev) /\ Listed(ev, now)

(***************************************************************************)
(* C7.  Retention filter.                                                  *)
(***************************************************************************)
\* The filter and the listing of this run have both happened.
Diffed == pc \in {"upsert", "delete", "done"}
          /\ CallsWhere(LAMBDA c : c.op = "list") # {}

\* An event is in the kept snapshot exactly when the retention rule keeps it.
KeptIffRule ==
    \A e \in content : (Identity(e) \in DOMAIN src) <=> RetentionRule(e, now)

\* No insert or patch is issued for an event the rule drops.
DroppedNeverUpserted ==
    \A e \in content \ KeptEvents(content, now) :
       CallsWhere(LAMBDA c : c.op \in {"insert", "patch"}
                             /\ c.uid = Identity(e)) = {}

\* A listed managed event with a dropped event's identity has been deleted.
DroppedDeleted ==
    \A e \in content \ KeptEvents(content, now) :
       \A ev \in ListedManaged(store0, now) :
          uid_of(ev) = Identity(e)
             => /\ Cardinality(DeletesOf(ev.id)) = 1
                /\ ev \notin store

Observable(r) ==
    [summary |-> r.summary, description |-> r.description,
     location |-> r.location, start |-> r.start, end |-> r.end,
     recurrence |-> IF "recurrence" \in DOMAIN r THEN r.recurrence ELSE << >>]

C8_FingerprintTracksContent ==
    resources # << >>
    => ( (Observable(resources[1]) = Observable(resources[2]))
            <=> (resources[1].private.fp = resources[2].private.fp) )

(***************************************************************************)
(* C9.  Upsert decision: for every kept event the upsert loop has visited, *)
(* one insert with the canonical resource when the listing had no event of *)
(* its identity, nothing when the listed event carries the new             *)
(* fingerprint, one patch of the listed event's id with the canonical      *)
(* resource otherwise; and nothing yet for the events not visited.         *)
(***************************************************************************)
UpsertsOf(u) ==
    CallsWhere(LAMBDA c : c.op \in {"insert", "patch"} /\ c.uid = u)

\* The kept events the upsert loop has visited.
Visited == {Identity(e) : e \in KeptEvents(content, now)} \ todo

C9_UpsertDecision ==
    Diffed =>
      /\ \A e \in KeptEvents(content, now) :
           LET u == Identity(e)
               res == to_gcal_resource(e)[2]
               listed == {ev \in ListedManaged(store0, now) : uid_of(ev) = u}
               ups == UpsertsOf(u)
           IN  IF u \notin Visited THEN ups = {}
               ELSE IF listed = {}
               THEN /\ Cardinality(ups) = 1
                    /\ \A i \in ups : calls[i].op = "insert" /\ calls[i].body = res
               ELSE \E ev \in listed :
                       IF "fp" \in DOMAIN private_of(ev)
                             /\ private_of(ev).fp = res.private.fp
                       THEN ups = {}
                       ELSE /\ Cardinality(ups) = 1
                            /\ \A i \in ups : /\ calls[i].op = "patch"
                                              /\ calls[i].id = ev.id
                                              /\ calls[i].body = res
      /\ \A i \in CallsWhere(LAMBDA c : c.op \in {"insert", "patch"}) :
            \E e \in KeptEvents(content, now) : calls[i].uid = Identity(e)

C9_Witness ==
    /\ pc = "done"
    /\ outcome = "completed"
    /\ CallsWhere(LAMBDA c : c.op = "insert") # {}
    /\ \E i \in CallsWhere(LAMBDA c : c.op = "patch") :
          \E ev \in store0 : ev.id = calls[i].id /\ "fp" \notin DOMAIN private_of(ev)

(***************************************************************************)
(* C10.  Fail-fast: once an insert or a patch has raised, the run is over: *)
(* the failed call is the last call of the run, the mutations made before  *)
(* it are in the store, and the sync state saved by the run is on disk.    *)
(***************************************************************************)
C10_FailFast ==
    \A i \in CallsWhere(LAMBDA c : c.op \in {"insert", "patch"} /\ ~c.ok) :
       /\ i = Len(calls)
       /\ pc = "done"
       /\ outcome = "failed"
       /\ store = Applied(store0, calls)
       /\ state_file = new_state(content)

C10_Witness ==
    /\ pc = "done"
    /\ outcome = "failed"
    /\ ~calls[Len(calls)].ok
    /\ calls[Len(calls)].op \in {"insert", "patch"}
    /\ CallsWhere(LAMBDA c : c.op \in {"insert", "patch"} /\ c.ok) # {}
    /\ to_delete(existing, src) # {}
    /\ store # store0

=============================================================================
